---------------------------- MODULE Spec2Model ----------------------------
(***************************************************************************)
(* Agent Battle: the debate engine (backend/app/graph.py), the session     *)
(* registry and the three session operations (backend/app/main.py).        *)
(*                                                                         *)
(* The engine is an async generator on a single-threaded event loop: the   *)
(* code between two suspension points (a yield, the await of the next      *)
(* fragment of a model, the inter-round sleep) runs atomically, and the    *)
(* request handlers of main.py run between such steps.  Each action below  *)
(* is one such atomic step.  Text is modelled by strings, concatenation by *)
(* \o.                                                                     *)
(***************************************************************************)
EXTENDS Integers, Sequences, FiniteSets, TLC

VARIABLES
    settings,         \* Settings: the fields config.py declares
    debate_graph,     \* main.debate_graph is not None
    stop_signals,     \* DebateGraph._stop_signals : session id -> bool
    active_sessions,  \* main.active_sessions : session id -> config
    runs,             \* the run_debate generators, by run id
    uuid_count,       \* session ids generated by start_debate so far
    response          \* the answer given in the latest step, if any

vars == <<settings, debate_graph, stop_signals, active_sessions, runs,
          uuid_count, response>>

-----------------------------------------------------------------------------
(* Bounds of the model *)

\* fragments the models produce in one run, all turns together
MaxChunks == 1

\* streaming calls that raise in one run
MaxErrors == 1

\* session ids start_debate generates
MaxGenerated == 1

-----------------------------------------------------------------------------
(* Values *)

\* Python's None, where a string is expected
NoneVal == "<None>"

\* Python's None, where an integer is expected (StreamEvent.max_rounds,
\* DebateRequest.max_rounds left out of the request)
NoneInt == -1

DefaultMaxRounds == 2
MinMaxRounds == 1
MaxMaxRounds == 20

OPENAI == "openai"
GEMINI == "gemini"
ANTHROPIC == "anthropic"

SelectedModel(provider, model_id) ==
    [provider |-> provider, model_id |-> model_id]

ModelInfo(id, name) == [id |-> id, name |-> name]

AVAILABLE_MODELS ==
    [p \in {OPENAI, GEMINI, ANTHROPIC} |->
        CASE p = OPENAI ->
               << ModelInfo("o3", "o3"),
                  ModelInfo("o4-mini", "o4-mini"),
                  ModelInfo("gpt-4.1", "GPT-4.1"),
                  ModelInfo("gpt-4.1-mini", "GPT-4.1 Mini"),
                  ModelInfo("gpt-4o", "GPT-4o") >>
          [] p = GEMINI ->
               << ModelInfo("gemini-2.5-pro", "Gemini 2.5 Pro"),
                  ModelInfo("gemini-2.5-flash", "Gemini 2.5 Flash"),
                  ModelInfo("gemini-2.0-flash", "Gemini 2.0 Flash") >>
          [] p = ANTHROPIC ->
               << ModelInfo("claude-opus-4-5-20251124", "Claude Opus 4.5"),
                  ModelInfo("claude-sonnet-4-5-20250929", "Claude Sonnet 4.5"),
                  ModelInfo("claude-haiku-4-5-20251015", "Claude Haiku 4.5") >>]

\* start_debate's and run_debate's default pair
default_models ==
    << SelectedModel(OPENAI, "gpt-4.1"),
       SelectedModel(GEMINI, "gemini-2.5-flash") >>

StreamEvent(event_type, provider, content, message_id, round_number, max_rounds, model_id) ==
    [event_type |-> event_type, provider |-> provider, content |-> content,
     message_id |-> message_id, round_number |-> round_number,
     max_rounds |-> max_rounds, model_id |-> model_id]

-----------------------------------------------------------------------------
(* Pure functions of graph.py *)

get_model_display_name(provider, model_id) ==
    IF provider \in DOMAIN AVAILABLE_MODELS
       /\ \E k \in DOMAIN AVAILABLE_MODELS[provider] :
              AVAILABLE_MODELS[provider][k].id = model_id
    THEN LET first == CHOOSE k \in DOMAIN AVAILABLE_MODELS[provider] :
                        /\ AVAILABLE_MODELS[provider][k].id = model_id
                        /\ \A j \in 1..(k - 1) :
                               AVAILABLE_MODELS[provider][j].id # model_id
         IN  AVAILABLE_MODELS[provider][first].name
    ELSE model_id

\* The outcome of create_llm: ok, or the message of the exception it raises.
\* Settings declares no anthropic_api_key, so reading it raises AttributeError.
create_llm(s, selected_model) ==
    LET provider == selected_model.provider IN
    CASE provider = OPENAI ->
           IF s.openai_api_key = ""
           THEN [ok |-> FALSE, error |-> "OpenAI API key not configured"]
           ELSE [ok |-> TRUE, error |-> ""]
      [] provider = GEMINI ->
           IF s.google_api_key = ""
           THEN [ok |-> FALSE, error |-> "Google API key not configured"]
           ELSE [ok |-> TRUE, error |-> ""]
      [] provider = ANTHROPIC ->
           IF "anthropic_api_key" \notin DOMAIN s
           THEN [ok |-> FALSE,
                 error |-> "'Settings' object has no attribute 'anthropic_api_key'"]
           ELSE IF s.anthropic_api_key = ""
           THEN [ok |-> FALSE, error |-> "Anthropic API key not configured"]
           ELSE [ok |-> TRUE, error |-> ""]
      [] OTHER ->
           [ok |-> FALSE, error |-> "Unsupported provider: " \o provider]

\* f"{provider.value}_{model_id}", the key of latest_responses
model_key(selected_model) ==
    selected_model.provider \o "_" \o selected_model.model_id

\* dict.get(key, default)
dict_get(d, key, default) == IF key \in DOMAIN d THEN d[key] ELSE default

\* d[key] = value
dict_set(d, key, value) ==
    [k \in DOMAIN d \cup {key} |-> IF k = key THEN value ELSE d[k]]

\* d.pop(key, None)
dict_pop(d, key) == [k \in DOMAIN d \ {key} |-> d[k]]

\* the critique template of _build_prompt
critique_prompt(other_name, other_response, question) ==
    "The other AI (" \o other_name \o ") responded:\n\n"
    \o "\"" \o other_response \o "\"\n\n"
    \o "Please critique this response, point out any flaws or "
    \o "missing perspectives, and provide your improved answer "
    \o "to the original question: " \o question

\* the index of the participant whose answer is critiqued
other_index_of(model_index, n) == (model_index + 1) % n

\* build_prompt with the round test lost: round 0 is given the critique
\* template too
build_prompt_critique_always(question, round_num, model_index, latest_responses, llms) ==
    LET other_model == llms[other_index_of(model_index, Len(llms)) + 1]
    IN  critique_prompt(get_model_display_name(other_model.provider,
                                               other_model.model_id),
                        dict_get(latest_responses, model_key(other_model), ""),
                        question)

build_prompt(question, round_num, model_index, latest_responses, llms) ==
    IF round_num = 0
    THEN question
    ELSE LET other_index == other_index_of(model_index, Len(llms))
             \* Python lists are 0-based, sequences 1-based
             other_model == llms[other_index + 1]
             other_name == get_model_display_name(other_model.provider,
                                                  other_model.model_id)
             other_response == dict_get(latest_responses,
                                        model_key(other_model), "")
         IN  critique_prompt(other_name, other_response, question)

\* f"[Error: {str(e)}]"
error_text(e) == "[Error: " \o e \o "]"

\* api/index.py: build_prompt, a closure over question and llms
index_build_prompt(question, llms, model_index, round_num, latest_responses) ==
    IF round_num = 0
    THEN question
    ELSE LET other_index == (model_index + 1) % Len(llms)
             other_model == llms[other_index + 1]
             other_name == get_model_display_name(other_model.provider,
                                                  other_model.model_id)
             other_key == other_model.provider \o "_" \o other_model.model_id
             other_response == dict_get(latest_responses, other_key, "")
         IN  "The other AI (" \o other_name \o ") responded:\n\n\""
             \o other_response \o "\"\n\n"
             \o "Please critique this response, point out any flaws or "
             \o "missing perspectives, and provide your improved answer "
             \o "to the original question: " \o question

-----------------------------------------------------------------------------
(* DebateGraph: the stop signals *)

\* is_stopped that never sees a signal
is_stopped_never(signals, session_id) == FALSE

is_stopped(signals, session_id) == dict_get(signals, session_id, FALSE)

graph_stop_debate(signals, session_id) == dict_set(signals, session_id, TRUE)

\* clear_stop_signal that clears the signals of all sessions
clear_stop_signal_all(signals, session_id) == << >>

clear_stop_signal(signals, session_id) == dict_pop(signals, session_id)

-----------------------------------------------------------------------------
(* One run_debate generator.                                               *)
(*                                                                         *)
(* pc is where the generator is suspended:                                 *)
(*   idle               no generator                                       *)
(*   created            stream_debate has built it, nothing has run yet    *)
(*   yield_init_error   at the yield of line 196                           *)
(*   yield_round_start  at the yield of line 219                           *)
(*   streaming          inside _stream_response: at the yield of           *)
(*                      stream_start or of a fragment, or awaiting the     *)
(*                      model's next fragment                              *)
(*   yield_error_chunk  at the yield of line 153                           *)
(*   yield_stream_end   at the yield of line 164 (line 242 of run_debate)  *)
(*   yield_round_end    at the yield of line 264                           *)
(*   sleeping           in asyncio.sleep, line 284                         *)
(*   yield_debate_end   at a yield of debate_end (lines 210, 255, 275)     *)
(*   yield_error        at the yield of line 287                           *)
(*   finally            about to run the finally clause                    *)
(*   done               the generator has returned                         *)
(*                                                                         *)
(* events is what the generator has yielded, calls the prompts it has      *)
(* passed to llm.astream (the participant's position and the round with    *)
(* each); stop_seen records that the session's stop signal was set at some *)
(* moment of the run.                                                      *)
(***************************************************************************)

IdleRun ==
    [pc |-> "idle", session_id |-> NoneVal, question |-> "", max_rounds |-> 0,
     models |-> << >>, llms |-> << >>, round_num |-> 0, i |-> 0,
     prompt |-> "", message_id |-> NoneVal, full_content |-> "",
     latest_responses |-> << >>, events |-> << >>, calls |-> << >>,
     n_chunks |-> 0, n_errors |-> 0, stop_seen |-> FALSE]

Emit(run, event) == [run EXCEPT !.events = Append(@, event)]

Last(seq) == seq[Len(seq)]

\* message_uuid that depends on the round only: the turns of a round share it
message_uuid_by_round(r, run) ==
    "msg-" \o r \o "-" \o ToString(run.round_num)

\* str(uuid.uuid4()) in _stream_response: a value no earlier call returned
message_uuid(r, run) ==
    "msg-" \o r \o "-" \o ToString(Len(run.calls) + 1)

debate_end_stopped(run) ==
    StreamEvent("debate_end", NoneVal, "Debate stopped by user", NoneVal,
                run.round_num, run.max_rounds, NoneVal)

\* lines 207-224: the head of the while loop, up to its first yield
while_head(run, stopped) ==
    IF ~(run.round_num < run.max_rounds)
    THEN [run EXCEPT !.pc = "finally"]
    ELSE IF stopped
    THEN [Emit(run, debate_end_stopped(run)) EXCEPT !.pc = "yield_debate_end"]
    ELSE [Emit(run, StreamEvent("round_start", NoneVal,
                                "Round " \o ToString(run.round_num + 1),
                                NoneVal, run.round_num, run.max_rounds,
                                NoneVal))
            EXCEPT !.pc = "yield_round_start"]

\* after_models that closes a round without its round_end
after_models_without_round_end(run, stopped) ==
    IF stopped
    THEN [Emit(run, debate_end_stopped(run)) EXCEPT !.pc = "yield_debate_end"]
    ELSE [run EXCEPT !.pc = "yield_round_end"]

\* lines 253-269: after the for loop, up to the next yield
after_models(run, stopped) ==
    IF stopped
    THEN [Emit(run, debate_end_stopped(run)) EXCEPT !.pc = "yield_debate_end"]
    ELSE [Emit(run, StreamEvent("round_end", NoneVal,
                                "Round " \o ToString(run.round_num + 1)
                                    \o " complete",
                                NoneVal, run.round_num, run.max_rounds,
                                NoneVal))
            EXCEPT !.pc = "yield_round_end"]

\* for_models that goes through the participants from the last to the first
for_models_reversed(r, run, i, stopped) ==
    IF i < Len(run.llms) /\ ~stopped
    THEN LET selected_model == run.llms[Len(run.llms) - i]
             prompt == build_prompt(run.question, run.round_num, i,
                                    run.latest_responses, run.llms)
             message_id == message_uuid(r, run)
         IN  [Emit(run, StreamEvent("stream_start", selected_model.provider,
                                    "", message_id, run.round_num,
                                    run.max_rounds, selected_model.model_id))
                EXCEPT !.pc = "streaming", !.i = i, !.prompt = prompt,
                       !.message_id = message_id, !.full_content = "",
                       !.calls = Append(@, [position |-> i,
                                            round_num |-> run.round_num,
                                            prompt |-> prompt])]
    ELSE after_models([run EXCEPT !.i = i], stopped)

\* lines 227-242 and 121-132: the for loop at participant i (0-based), up to
\* the yield of its stream_start
for_models(r, run, i, stopped) ==
    IF i < Len(run.llms) /\ ~stopped
    THEN LET selected_model == run.llms[i + 1]
             prompt == build_prompt(run.question, run.round_num, i,
                                    run.latest_responses, run.llms)
             message_id == message_uuid(r, run)
         IN  [Emit(run, StreamEvent("stream_start", selected_model.provider,
                                    "", message_id, run.round_num,
                                    run.max_rounds, selected_model.model_id))
                EXCEPT !.pc = "streaming", !.i = i, !.prompt = prompt,
                       !.message_id = message_id, !.full_content = "",
                       !.calls = Append(@, [position |-> i,
                                            round_num |-> run.round_num,
                                            prompt |-> prompt])]
    ELSE after_models([run EXCEPT !.i = i], stopped)

\* run_begin that leaves out the participants whose adapter cannot be built
\* and starts the debate with the others
run_begin_skipping(run, s, stopped) ==
    LET models == IF Len(run.models) < 2 THEN default_models ELSE run.models
        built == SelectSeq(models, LAMBDA m : create_llm(s, m).ok)
    IN  while_head([run EXCEPT !.models = models, !.llms = built,
                               !.round_num = 0, !.latest_responses = << >>],
                   stopped)

\* lines 182-224: from the first resumption to the first yield
run_begin(run, s, stopped) ==
    LET models == IF Len(run.models) < 2 THEN default_models ELSE run.models
        failing == {k \in DOMAIN models : ~create_llm(s, models[k]).ok}
    IN  IF failing # {}
        THEN LET k == CHOOSE k \in failing : \A j \in failing : k <= j
                 selected_model == models[k]
             IN  [Emit(run, StreamEvent("error", NoneVal,
                                        "Failed to initialize "
                                            \o selected_model.provider \o ": "
                                            \o create_llm(s, selected_model).error,
                                        NoneVal, 0, NoneInt, NoneVal))
                    EXCEPT !.pc = "yield_init_error", !.models = models,
                           !.llms = SubSeq(models, 1, k - 1)]
        ELSE while_head([run EXCEPT !.models = models, !.llms = models,
                                    !.round_num = 0,
                                    !.latest_responses = << >>],
                        stopped)

-----------------------------------------------------------------------------
(* Inputs *)

RunIds == {"r1"}

\* the fragments a model produces ("" is a fragment without text)
ChunkTexts == {"", "a"}

\* str(e) of what a streaming call raises
StreamErrors == {"boom"}

\* str(e) of an exception raised in the round loop outside _stream_response
LoopErrors == {"internal"}

DebateRequest(question, session_id, max_rounds, models) ==
    [question |-> question, session_id |-> session_id,
     max_rounds |-> max_rounds, models |-> models]

\* models = None in a request
NoModels == << SelectedModel(NoneVal, NoneVal) >>

\* the start requests: three participants with positions 1 and 2 alike for two
\* rounds, no list and a list of one for one round, an adapter that cannot
\* be built at position 0 and at position 2, a round limit out of range
Requests ==
    { DebateRequest("What is AI?", "s1", NoneInt,
                    << SelectedModel(OPENAI, "gpt-4.1"),
                       SelectedModel(GEMINI, "gemini-2.0-flash"),
                       SelectedModel(GEMINI, "gemini-2.0-flash") >>),
      DebateRequest("What is AI?", "s1", 1, NoModels),
      DebateRequest("What is AI?", "s1", 1,
                    << SelectedModel(GEMINI, "my-tuned-model") >>),
      DebateRequest("What is AI?", "s1", 1,
                    << SelectedModel(ANTHROPIC, "claude-opus-4-5-20251124"),
                       SelectedModel(OPENAI, "gpt-4o") >>),
      DebateRequest("What is AI?", "s1", 1,
                    << SelectedModel(OPENAI, "gpt-4o"),
                       SelectedModel(GEMINI, "gemini-2.5-pro"),
                       SelectedModel(ANTHROPIC, "claude-haiku-4-5-20251015") >>),
      DebateRequest("What is AI?", "s1", 21, NoModels) }

\* The requests put to the serverless entry point: the default pair for the
\* default two rounds, and a list whose first adapter cannot be built
IndexRequests ==
    { DebateRequest("What is AI?", "s1", NoneInt, NoModels),
      DebateRequest("What is AI?", "s1", 1,
                    << SelectedModel(ANTHROPIC, "claude-opus-4-5-20251124"),
                       SelectedModel(OPENAI, "gpt-4o") >>) }

\* type(e).__name__ of an exception raised in the round loop
LoopErrorType == "RuntimeError"

\* The requests of the specification with two sessions: under "s1" one
\* round, for the default pair or for a list whose first adapter cannot be
\* built, and under "s2" the default pair for the default two rounds
PairRequests ==
    { DebateRequest("What is AI?", "s1", 1, NoModels),
      DebateRequest("What is AI?", "s1", 1,
                    << SelectedModel(ANTHROPIC, "claude-opus-4-5-20251124"),
                       SelectedModel(OPENAI, "gpt-4o") >>),
      DebateRequest("What is life?", "s2", NoneInt, NoModels) }

\* the two sessions, and the generator that streams each of them
PairSessionIds == {"s1", "s2"}

PairRunIds == {"r1", "r2"}

\* the generators whose models answer with text and whose calls can fail;
\* the models of the other generator end every answer without text
PairFailingRunIds == {"r1"}

PairRunOf(session_id) == IF session_id = "s1" THEN "r1" ELSE "r2"

\* The requests of the specification with two streams of one session: the
\* default pair for the default two rounds, and a list whose first adapter
\* cannot be built
TwinRequests ==
    { DebateRequest("What is AI?", "s1", NoneInt, NoModels),
      DebateRequest("What is AI?", "s1", 1,
                    << SelectedModel(ANTHROPIC, "claude-opus-4-5-20251124"),
                       SelectedModel(OPENAI, "gpt-4o") >>) }

\* The requests of the specification with a consumer that keeps reading:
\* three different participants for two rounds, and another question for one
\* round with an adapter that cannot be built
LiveRequests ==
    { DebateRequest("What is AI?", "s1", NoneInt,
                    << SelectedModel(OPENAI, "gpt-4o"),
                       SelectedModel(GEMINI, "gemini-2.5-pro"),
                       SelectedModel(GEMINI, "gemini-2.0-flash") >>),
      DebateRequest("What is life?", "s1", 1,
                    << SelectedModel(ANTHROPIC, "claude-opus-4-5-20251124"),
                       SelectedModel(OPENAI, "gpt-4o") >>) }

\* The requests of the specification that follows the client's side as well:
\* no round limit (the default applies) with no list and with an empty list,
\* the least limit accepted with a list of one, the greatest with a list of
\* two whose first adapter cannot be built, and the limits next to them on
\* the outside
ApiRequests ==
    { DebateRequest("What is AI?", "s1", NoneInt, NoModels),
      DebateRequest("What is AI?", "s1", NoneInt, << >>),
      DebateRequest("What is AI?", "s1", 1,
                    << SelectedModel(GEMINI, "my-tuned-model") >>),
      DebateRequest("What is AI?", "s1", 20,
                    << SelectedModel(ANTHROPIC, "claude-opus-4-5-20251124"),
                       SelectedModel(OPENAI, "gpt-4o") >>),
      DebateRequest("What is AI?", "s1", 0, NoModels),
      DebateRequest("What is AI?", "s1", 21, NoModels) }

\* str(uuid.uuid4()) in start_debate
session_uuid(n) == "uuid-" \o ToString(n)

\* the session ids a client can name
SessionIds == {"s1"} \cup {session_uuid(n) : n \in 1..uuid_count}

HttpResponse(op, session_id, status) ==
    [op |-> op, session_id |-> session_id, status |-> status]

\* DebateResponse, the answer of a start that was accepted
DebateResponse(session_id, question, max_rounds, models) ==
    [op |-> "start", session_id |-> session_id, status |-> 200,
     question |-> question, max_rounds |-> max_rounds, models |-> models]

\* the latest step was no request
NoResponse == HttpResponse("none", NoneVal, 0)

\* what the model keeps of an answer: the answer itself where the client's
\* side of the exchange is followed, nothing where only the server is
Answer(recorded, http_response) ==
    IF recorded THEN http_response ELSE NoResponse

-----------------------------------------------------------------------------
(* main.py: the request handlers *)

\* DebateRequest's validation of max_rounds: Field(default=2, ge=1, le=20)
validated_max_rounds(request) ==
    IF request.max_rounds = NoneInt THEN DefaultMaxRounds
    ELSE request.max_rounds

\* valid_request with ge=0 for ge=1
valid_request_from_zero(request) ==
    /\ validated_max_rounds(request) >= 0
    /\ validated_max_rounds(request) <= MaxMaxRounds

valid_request(request) ==
    /\ validated_max_rounds(request) >= MinMaxRounds
    /\ validated_max_rounds(request) <= MaxMaxRounds

\* start_models that keeps a list of one
start_models_keeping_one(request) ==
    IF request.models = NoModels \/ Len(request.models) < 1
    THEN default_models
    ELSE request.models

\* lines 127-135
start_models(request) ==
    IF request.models = NoModels \/ Len(request.models) < 2
    THEN default_models
    ELSE request.models

\* start_debate whose new configuration reaches the runs of the session that
\* are in progress
start_debate_rebinding(request, recorded) ==
    IF ~valid_request(request)
    THEN /\ response' = Answer(recorded,
                               HttpResponse("start", request.session_id, 422))
         /\ UNCHANGED <<settings, debate_graph, stop_signals, active_sessions,
                        runs, uuid_count>>
    ELSE LET generated == request.session_id \in {NoneVal, ""}
             session_id == IF generated THEN session_uuid(uuid_count + 1)
                           ELSE request.session_id
         IN  /\ generated => uuid_count < MaxGenerated
             /\ uuid_count' = IF generated THEN uuid_count + 1 ELSE uuid_count
             /\ active_sessions' =
                    dict_set(active_sessions, session_id,
                             [question |-> request.question,
                              max_rounds |-> validated_max_rounds(request),
                              models |-> start_models(request)])
             /\ runs' = [r \in DOMAIN runs |->
                            IF runs[r].pc \notin {"idle", "done"}
                               /\ runs[r].session_id = session_id
                            THEN [runs[r] EXCEPT
                                    !.question = request.question,
                                    !.max_rounds = validated_max_rounds(request)]
                            ELSE runs[r]]
             /\ response' = Answer(recorded,
                                   DebateResponse(session_id,
                                       request.question,
                                       validated_max_rounds(request),
                                       start_models(request)))
             /\ UNCHANGED <<settings, debate_graph, stop_signals>>

\* POST /debate/start
start_debate(request, recorded) ==
    IF ~valid_request(request)
    THEN /\ response' = Answer(recorded,
                               HttpResponse("start", request.session_id, 422))
         /\ UNCHANGED <<settings, debate_graph, stop_signals, active_sessions,
                        runs, uuid_count>>
    ELSE LET generated == request.session_id \in {NoneVal, ""}
             session_id == IF generated THEN session_uuid(uuid_count + 1)
                           ELSE request.session_id
         IN  /\ generated => uuid_count < MaxGenerated
             /\ uuid_count' = IF generated THEN uuid_count + 1 ELSE uuid_count
             /\ active_sessions' =
                    dict_set(active_sessions, session_id,
                             [question |-> request.question,
                              max_rounds |-> validated_max_rounds(request),
                              models |-> start_models(request)])
             /\ response' = Answer(recorded,
                                   DebateResponse(session_id,
                                       request.question,
                                       validated_max_rounds(request),
                                       start_models(request)))
             /\ UNCHANGED <<settings, debate_graph, stop_signals, runs>>

\* GET /debate/{session_id}/stream: the generator is built, not yet run
stream_debate(session_id, r, recorded) ==
    IF session_id \notin DOMAIN active_sessions
    THEN /\ response' = Answer(recorded,
                               HttpResponse("stream", session_id, 404))
         /\ UNCHANGED <<settings, debate_graph, stop_signals, active_sessions,
                        runs, uuid_count>>
    ELSE IF ~debate_graph
    THEN /\ response' = Answer(recorded,
                               HttpResponse("stream", session_id, 503))
         /\ UNCHANGED <<settings, debate_graph, stop_signals, active_sessions,
                        runs, uuid_count>>
    ELSE LET session_config == active_sessions[session_id]
         IN  /\ runs[r].pc = "idle"
             /\ runs' = [runs EXCEPT ![r] =
                            [IdleRun EXCEPT
                                !.pc = "created",
                                !.session_id = session_id,
                                !.question = session_config.question,
                                !.max_rounds = session_config.max_rounds,
                                !.models = session_config.models,
                                !.stop_seen = is_stopped(stop_signals,
                                                         session_id)]]
             /\ response' = Answer(recorded,
                                   HttpResponse("stream", session_id, 200))
             /\ UNCHANGED <<settings, debate_graph, stop_signals,
                            active_sessions, uuid_count>>

Running(run) == run.pc \notin {"idle", "done"}

\* stop_debate that signals the graph before it looks the session up
stop_debate_signalling_unknown(session_id, recorded) ==
    /\ stop_signals' = IF debate_graph
                       THEN graph_stop_debate(stop_signals, session_id)
                       ELSE stop_signals
    /\ runs' = [r \in DOMAIN runs |->
                   IF debate_graph /\ Running(runs[r])
                      /\ runs[r].session_id = session_id
                   THEN [runs[r] EXCEPT !.stop_seen = TRUE]
                   ELSE runs[r]]
    /\ active_sessions' = dict_pop(active_sessions, session_id)
    /\ response' = Answer(recorded,
                          HttpResponse("stop", session_id,
                                       IF session_id \in DOMAIN active_sessions
                                       THEN 200 ELSE 404))
    /\ UNCHANGED <<settings, debate_graph, uuid_count>>

\* stop_debate that removes the session and leaves the stop signals alone
stop_debate_without_signal(session_id, recorded) ==
    IF session_id \notin DOMAIN active_sessions
    THEN /\ response' = Answer(recorded,
                               HttpResponse("stop", session_id, 404))
         /\ UNCHANGED <<settings, debate_graph, stop_signals, active_sessions,
                        runs, uuid_count>>
    ELSE /\ active_sessions' = dict_pop(active_sessions, session_id)
         /\ response' = Answer(recorded,
                               HttpResponse("stop", session_id, 200))
         /\ UNCHANGED <<settings, debate_graph, stop_signals, runs,
                        uuid_count>>

\* stop_debate that sets the signal and keeps the session in the registry
stop_debate_keeping_session(session_id, recorded) ==
    IF session_id \notin DOMAIN active_sessions
    THEN /\ response' = Answer(recorded,
                               HttpResponse("stop", session_id, 404))
         /\ UNCHANGED <<settings, debate_graph, stop_signals, active_sessions,
                        runs, uuid_count>>
    ELSE /\ stop_signals' = IF debate_graph
                            THEN graph_stop_debate(stop_signals, session_id)
                            ELSE stop_signals
         /\ runs' = [r \in DOMAIN runs |->
                        IF debate_graph /\ Running(runs[r])
                           /\ runs[r].session_id = session_id
                        THEN [runs[r] EXCEPT !.stop_seen = TRUE]
                        ELSE runs[r]]
         /\ response' = Answer(recorded,
                               HttpResponse("stop", session_id, 200))
         /\ UNCHANGED <<settings, debate_graph, active_sessions, uuid_count>>

\* POST /debate/{session_id}/stop
stop_debate(session_id, recorded) ==
    IF session_id \notin DOMAIN active_sessions
    THEN /\ response' = Answer(recorded,
                               HttpResponse("stop", session_id, 404))
         /\ UNCHANGED <<settings, debate_graph, stop_signals, active_sessions,
                        runs, uuid_count>>
    ELSE /\ stop_signals' = IF debate_graph
                            THEN graph_stop_debate(stop_signals, session_id)
                            ELSE stop_signals
         /\ active_sessions' = dict_pop(active_sessions, session_id)
         /\ runs' = [r \in DOMAIN runs |->
                        IF debate_graph /\ Running(runs[r])
                           /\ runs[r].session_id = session_id
                        THEN [runs[r] EXCEPT !.stop_seen = TRUE]
                        ELSE runs[r]]
         /\ response' = Answer(recorded,
                               HttpResponse("stop", session_id, 200))
         /\ UNCHANGED <<settings, debate_graph, uuid_count>>

-----------------------------------------------------------------------------
(* graph.py: the steps of run_debate *)

\* The generator r goes on as run; when it reaches the finally clause
\* (line 293) it clears the stop signal and returns.
Continue(r, run) ==
    /\ runs' = [runs EXCEPT ![r] =
                   IF run.pc = "finally" THEN [run EXCEPT !.pc = "done"]
                   ELSE run]
    /\ stop_signals' = IF run.pc = "finally"
                       THEN clear_stop_signal(stop_signals, run.session_id)
                       ELSE stop_signals
    /\ response' = NoResponse
    /\ UNCHANGED <<settings, debate_graph, active_sessions, uuid_count>>

\* the first resumption: lines 182-224
RunBegin(r) ==
    /\ runs[r].pc = "created"
    /\ Continue(r, run_begin(runs[r], settings,
                             is_stopped(stop_signals, runs[r].session_id)))

\* resumed after the error event of line 196: return, outside the try
RunInitErrorReturn(r) ==
    /\ runs[r].pc = "yield_init_error"
    /\ runs' = [runs EXCEPT ![r].pc = "done"]
    /\ response' = NoResponse
    /\ UNCHANGED <<settings, debate_graph, stop_signals, active_sessions,
                   uuid_count>>

\* resumed after round_start: the for loop starts
RunModels(r) ==
    /\ runs[r].pc = "yield_round_start"
    /\ Continue(r, for_models(r, runs[r], 0,
                              is_stopped(stop_signals, runs[r].session_id)))

\* lines 136-150: the model produces a fragment
StreamChunk(r, chunk_content) ==
    /\ runs[r].pc = "streaming"
    /\ IF chunk_content # ""
       THEN /\ runs[r].n_chunks < MaxChunks
            /\ LET run == runs[r]
                   selected_model == run.llms[run.i + 1]
               IN  Continue(r,
                     [Emit(run, StreamEvent("stream_chunk",
                                            selected_model.provider,
                                            chunk_content, run.message_id,
                                            run.round_num, run.max_rounds,
                                            selected_model.model_id))
                        EXCEPT !.full_content = @ \o chunk_content,
                               !.n_chunks = @ + 1])
       ELSE Continue(r, runs[r])

\* StreamRaise without the except clause of _stream_response: the exception
\* reaches run_debate, which emits an error event and ends
StreamRaise_aborting(r, e) ==
    /\ runs[r].pc = "streaming"
    /\ runs[r].n_errors < MaxErrors
    /\ Continue(r, [Emit(runs[r], StreamEvent("error", NoneVal, e, NoneVal,
                                              runs[r].round_num, NoneInt,
                                              NoneVal))
                      EXCEPT !.n_errors = @ + 1, !.pc = "yield_error"])

\* lines 151-161: the streaming call raises
StreamRaise(r, e) ==
    /\ runs[r].pc = "streaming"
    /\ runs[r].n_errors < MaxErrors
    /\ LET run == runs[r]
           selected_model == run.llms[run.i + 1]
           full_content == error_text(e)
       IN  Continue(r,
             [Emit(run, StreamEvent("stream_chunk", selected_model.provider,
                                    full_content, run.message_id,
                                    run.round_num, run.max_rounds,
                                    selected_model.model_id))
                EXCEPT !.full_content = full_content,
                       !.n_errors = @ + 1,
                       !.pc = "yield_error_chunk"])

\* lines 163-172: the stream_end of a turn
stream_end(run) ==
    LET selected_model == run.llms[run.i + 1]
    IN  [Emit(run, StreamEvent("stream_end", selected_model.provider,
                               run.full_content, run.message_id,
                               run.round_num, run.max_rounds,
                               selected_model.model_id))
           EXCEPT !.pc = "yield_stream_end"]

\* StreamExhausted that polls the stop signal: a stopped turn is given up
\* without its stream_end
StreamExhausted_polling_stop(r) ==
    /\ runs[r].pc = "streaming"
    /\ Continue(r, IF is_stopped(stop_signals, runs[r].session_id)
                   THEN after_models(runs[r], TRUE)
                   ELSE stream_end(runs[r]))

\* the model's stream is exhausted
StreamExhausted(r) ==
    /\ runs[r].pc = "streaming"
    /\ Continue(r, stream_end(runs[r]))

\* resumed after the error fragment of line 153
StreamErrorResume(r) ==
    /\ runs[r].pc = "yield_error_chunk"
    /\ Continue(r, stream_end(runs[r]))

\* record_response that leaves the map as it is
record_response_skipping(run) == run

\* lines 243-251, then the next participant
record_response(run) ==
    LET event == Last(run.events)
        full_content == IF event.event_type = "stream_end"
                        THEN event.content ELSE ""
        selected_model == run.llms[run.i + 1]
    IN  [run EXCEPT !.latest_responses =
                        dict_set(@, model_key(selected_model), full_content)]

RunNextModel(r) ==
    /\ runs[r].pc = "yield_stream_end"
    /\ Continue(r, for_models(r, record_response(runs[r]), runs[r].i + 1,
                              is_stopped(stop_signals, runs[r].session_id)))

\* round_increment with > for >=: the last round is not recognised
round_increment_off_by_one(run) ==
    LET round_num == run.round_num + 1
    IN  IF round_num > run.max_rounds
        THEN [Emit(run, StreamEvent("debate_end", NoneVal, "Debate completed",
                                    NoneVal, round_num - 1, run.max_rounds,
                                    NoneVal))
                EXCEPT !.round_num = round_num, !.pc = "yield_debate_end"]
        ELSE [run EXCEPT !.round_num = round_num, !.pc = "sleeping"]

\* round_increment whose debate_end carries the index before the last
\* round's
round_increment_lagging(run) ==
    LET round_num == run.round_num + 1
    IN  IF round_num >= run.max_rounds
        THEN [Emit(run, StreamEvent("debate_end", NoneVal, "Debate completed",
                                    NoneVal, round_num - 2, run.max_rounds,
                                    NoneVal))
                EXCEPT !.round_num = round_num, !.pc = "yield_debate_end"]
        ELSE [run EXCEPT !.round_num = round_num, !.pc = "sleeping"]

\* lines 271-284: resumed after round_end
round_increment(run) ==
    LET round_num == run.round_num + 1
    IN  IF round_num >= run.max_rounds
        THEN [Emit(run, StreamEvent("debate_end", NoneVal, "Debate completed",
                                    NoneVal, round_num - 1, run.max_rounds,
                                    NoneVal))
                EXCEPT !.round_num = round_num, !.pc = "yield_debate_end"]
        ELSE [run EXCEPT !.round_num = round_num, !.pc = "sleeping"]

RunRoundEnd(r) ==
    /\ runs[r].pc = "yield_round_end"
    /\ Continue(r, round_increment(runs[r]))

\* RunWake that never leaves the sleep
RunWake_oversleeping(r) ==
    /\ runs[r].pc = "sleeping"
    /\ Continue(r, runs[r])

\* the sleep of line 284 is over: the while loop again
RunWake(r) ==
    /\ runs[r].pc = "sleeping"
    /\ Continue(r, while_head(runs[r],
                              is_stopped(stop_signals, runs[r].session_id)))

\* RunBreak without the break: the while loop goes on after a debate_end
RunBreak_looping(r) ==
    /\ runs[r].pc = "yield_debate_end"
    /\ Continue(r, while_head(runs[r],
                              is_stopped(stop_signals, runs[r].session_id)))

\* resumed after a debate_end: break, then the finally clause
RunBreak(r) ==
    /\ runs[r].pc = "yield_debate_end"
    /\ Continue(r, [runs[r] EXCEPT !.pc = "finally"])

\* lines 286-291: an exception reaches the except clause of run_debate
InTry(run) ==
    run.pc \in {"yield_round_start", "streaming", "yield_error_chunk",
                "yield_stream_end", "yield_round_end", "sleeping"}

\* RunRaise whose error event carries the round index 0
RunRaise_round_zero(r, e) ==
    /\ InTry(runs[r])
    /\ Continue(r, [Emit(runs[r], StreamEvent("error", NoneVal, e, NoneVal,
                                              0, NoneInt, NoneVal))
                      EXCEPT !.pc = "yield_error"])

RunRaise(r, e) ==
    /\ InTry(runs[r])
    /\ Continue(r, [Emit(runs[r], StreamEvent("error", NoneVal, e, NoneVal,
                                              runs[r].round_num, NoneInt,
                                              NoneVal))
                      EXCEPT !.pc = "yield_error"])

\* resumed after the error event of line 287: the finally clause
RunErrorReturn(r) ==
    /\ runs[r].pc = "yield_error"
    /\ Continue(r, [runs[r] EXCEPT !.pc = "finally"])

-----------------------------------------------------------------------------
(* The specification *)

\* lifespan(): the graph exists when both keys are configured
Init ==
    /\ settings \in [openai_api_key : {"", "sk-test"},
                     google_api_key : {"", "g-test"}]
    /\ debate_graph = (settings.openai_api_key # ""
                       /\ settings.google_api_key # "")
    /\ stop_signals = << >>
    /\ active_sessions = << >>
    /\ runs = [r \in RunIds |-> IdleRun]
    /\ uuid_count = 0
    /\ response = NoResponse

\* The server: what the requests and the runs do to its state.
Next ==
    \/ \E request \in Requests : start_debate(request, FALSE)
    \/ \E session_id \in SessionIds, r \in RunIds :
           stream_debate(session_id, r, FALSE)
    \/ \E session_id \in SessionIds : stop_debate(session_id, FALSE)
    \/ \E r \in RunIds : RunBegin(r)
    \/ \E r \in RunIds : RunInitErrorReturn(r)
    \/ \E r \in RunIds : RunModels(r)
    \/ \E r \in RunIds, c \in ChunkTexts : StreamChunk(r, c)
    \/ \E r \in RunIds, e \in StreamErrors : StreamRaise(r, e)
    \/ \E r \in RunIds : StreamExhausted(r)
    \/ \E r \in RunIds : StreamErrorResume(r)
    \/ \E r \in RunIds : RunNextModel(r)
    \/ \E r \in RunIds : RunRoundEnd(r)
    \/ \E r \in RunIds : RunWake(r)
    \/ \E r \in RunIds : RunBreak(r)
    \/ \E r \in RunIds, e \in LoopErrors : RunRaise(r, e)
    \/ \E r \in RunIds : RunErrorReturn(r)

Spec == Init /\ [][Next]_vars

\* The server and the answers it gives: the same steps, every answer kept
\* until the next step.
NextApi ==
    \/ \E request \in ApiRequests : start_debate(request, TRUE)
    \/ \E session_id \in SessionIds, r \in RunIds :
           stream_debate(session_id, r, TRUE)
    \/ \E session_id \in SessionIds : stop_debate(session_id, TRUE)
    \/ \E r \in RunIds : RunBegin(r)
    \/ \E r \in RunIds : RunInitErrorReturn(r)
    \/ \E r \in RunIds : RunModels(r)
    \/ \E r \in RunIds, c \in ChunkTexts : StreamChunk(r, c)
    \/ \E r \in RunIds, e \in StreamErrors : StreamRaise(r, e)
    \/ \E r \in RunIds : StreamExhausted(r)
    \/ \E r \in RunIds : StreamErrorResume(r)
    \/ \E r \in RunIds : RunNextModel(r)
    \/ \E r \in RunIds : RunRoundEnd(r)
    \/ \E r \in RunIds : RunWake(r)
    \/ \E r \in RunIds : RunBreak(r)
    \/ \E r \in RunIds, e \in LoopErrors : RunRaise(r, e)
    \/ \E r \in RunIds : RunErrorReturn(r)

SpecApi == Init /\ [][NextApi]_vars

\* The server with two sessions, each streamed by a generator of its own.
\* The two generators take their steps in any order.
InitPair ==
    /\ settings \in [openai_api_key : {"", "sk-test"},
                     google_api_key : {"", "g-test"}]
    /\ debate_graph = (settings.openai_api_key # ""
                       /\ settings.google_api_key # "")
    /\ stop_signals = << >>
    /\ active_sessions = << >>
    /\ runs = [r \in PairRunIds |-> IdleRun]
    /\ uuid_count = 0
    /\ response = NoResponse

NextPair ==
    \/ \E request \in PairRequests : start_debate(request, FALSE)
    \/ \E session_id \in PairSessionIds :
           stream_debate(session_id, PairRunOf(session_id), FALSE)
    \/ \E session_id \in PairSessionIds : stop_debate(session_id, FALSE)
    \/ \E r \in PairRunIds : RunBegin(r)
    \/ \E r \in PairRunIds : RunInitErrorReturn(r)
    \/ \E r \in PairRunIds : RunModels(r)
    \/ \E r \in PairFailingRunIds, c \in ChunkTexts : StreamChunk(r, c)
    \/ \E r \in PairFailingRunIds, e \in StreamErrors : StreamRaise(r, e)
    \/ \E r \in PairRunIds : StreamExhausted(r)
    \/ \E r \in PairRunIds : StreamErrorResume(r)
    \/ \E r \in PairRunIds : RunNextModel(r)
    \/ \E r \in PairRunIds : RunRoundEnd(r)
    \/ \E r \in PairRunIds : RunWake(r)
    \/ \E r \in PairRunIds : RunBreak(r)
    \/ \E r \in PairFailingRunIds, e \in LoopErrors : RunRaise(r, e)
    \/ \E r \in PairRunIds : RunErrorReturn(r)

SpecPair == InitPair /\ [][NextPair]_vars

\* The server with one session that two clients stream at a time: either
\* generator may be built for it while the other runs.
NextTwin ==
    \/ \E request \in TwinRequests : start_debate(request, FALSE)
    \/ \E session_id \in SessionIds, r \in PairRunIds :
           stream_debate(session_id, r, FALSE)
    \/ \E session_id \in SessionIds : stop_debate(session_id, FALSE)
    \/ \E r \in PairRunIds : RunBegin(r)
    \/ \E r \in PairRunIds : RunInitErrorReturn(r)
    \/ \E r \in PairRunIds : RunModels(r)
    \/ \E r \in PairFailingRunIds, c \in ChunkTexts : StreamChunk(r, c)
    \/ \E r \in PairFailingRunIds, e \in StreamErrors : StreamRaise(r, e)
    \/ \E r \in PairRunIds : StreamExhausted(r)
    \/ \E r \in PairRunIds : StreamErrorResume(r)
    \/ \E r \in PairRunIds : RunNextModel(r)
    \/ \E r \in PairRunIds : RunRoundEnd(r)
    \/ \E r \in PairRunIds : RunWake(r)
    \/ \E r \in PairRunIds : RunBreak(r)
    \/ \E r \in PairFailingRunIds, e \in LoopErrors : RunRaise(r, e)
    \/ \E r \in PairRunIds : RunErrorReturn(r)

SpecTwin == InitPair /\ [][NextTwin]_vars

\* The server with model calls that end and a consumer that keeps reading:
\* a generator that can go on does go on. Fragments, failures of a call and
\* requests come as they may.
NextLive ==
    \/ \E request \in LiveRequests : start_debate(request, FALSE)
    \/ \E session_id \in SessionIds, r \in RunIds :
           stream_debate(session_id, r, FALSE)
    \/ \E session_id \in SessionIds : stop_debate(session_id, FALSE)
    \/ \E r \in RunIds : RunBegin(r)
    \/ \E r \in RunIds : RunInitErrorReturn(r)
    \/ \E r \in RunIds : RunModels(r)
    \/ \E r \in RunIds, c \in ChunkTexts : StreamChunk(r, c)
    \/ \E r \in RunIds, e \in StreamErrors : StreamRaise(r, e)
    \/ \E r \in RunIds : StreamExhausted(r)
    \/ \E r \in RunIds : StreamErrorResume(r)
    \/ \E r \in RunIds : RunNextModel(r)
    \/ \E r \in RunIds : RunRoundEnd(r)
    \/ \E r \in RunIds : RunWake(r)
    \/ \E r \in RunIds : RunBreak(r)
    \/ \E r \in RunIds, e \in LoopErrors : RunRaise(r, e)
    \/ \E r \in RunIds : RunErrorReturn(r)

\* the generator r is resumed, and the model call it waits for ends
RunStep(r) ==
    \/ RunBegin(r)
    \/ RunInitErrorReturn(r)
    \/ RunModels(r)
    \/ StreamExhausted(r)
    \/ StreamErrorResume(r)
    \/ RunNextModel(r)
    \/ RunRoundEnd(r)
    \/ RunWake(r)
    \/ RunBreak(r)
    \/ RunErrorReturn(r)

SpecLive ==
    /\ Init
    /\ [][NextLive]_vars
    /\ \A r \in RunIds : WF_vars(RunStep(r))

-----------------------------------------------------------------------------
(* api/index.py: the serverless entry point.                               *)
(*                                                                         *)
(* It has a registry of its own and no DebateGraph: debate_graph is FALSE  *)
(* and stop_signals stays empty. settings stands for the environment:      *)
(* OPENAI_API_KEY and GOOGLE_API_KEY, ANTHROPIC_API_KEY not set. A run is  *)
(* the generator generate_events; stop_seen records that stop was called   *)
(* for its session while it ran.                                           *)
(***************************************************************************)

\* create_llm of api/index.py: ok, or the message of the ValueError
index_create_llm(env, selected_model) ==
    LET provider == selected_model.provider IN
    CASE provider = OPENAI ->
           IF dict_get(env, "openai_api_key", "") = ""
           THEN [ok |-> FALSE, error |-> "OPENAI_API_KEY not configured"]
           ELSE [ok |-> TRUE, error |-> ""]
      [] provider = GEMINI ->
           IF dict_get(env, "google_api_key", "") = ""
           THEN [ok |-> FALSE, error |-> "GOOGLE_API_KEY not configured"]
           ELSE [ok |-> TRUE, error |-> ""]
      [] provider = ANTHROPIC ->
           IF dict_get(env, "anthropic_api_key", "") = ""
           THEN [ok |-> FALSE, error |-> "ANTHROPIC_API_KEY not configured"]
           ELSE [ok |-> TRUE, error |-> ""]
      [] OTHER ->
           [ok |-> FALSE, error |-> "Unsupported provider: " \o provider]

\* POST /api/debate/start: the handler of main.py, statement for statement
index_start_debate(request, recorded) == start_debate(request, recorded)

\* GET /api/debate/{session_id}/stream: the adapters are built in the
\* handler; the generator is built, not yet run
index_stream_debate(session_id, r, recorded) ==
    IF session_id \notin DOMAIN active_sessions
    THEN /\ response' = Answer(recorded,
                               HttpResponse("stream", session_id, 404))
         /\ UNCHANGED <<settings, debate_graph, stop_signals, active_sessions,
                        runs, uuid_count>>
    ELSE LET session_config == active_sessions[session_id]
             models == session_config.models
         IN  IF \E k \in DOMAIN models : ~index_create_llm(settings, models[k]).ok
             THEN /\ response' = Answer(recorded,
                                        HttpResponse("stream", session_id, 503))
                  /\ UNCHANGED <<settings, debate_graph, stop_signals,
                                 active_sessions, runs, uuid_count>>
             ELSE /\ runs[r].pc = "idle"
                  /\ runs' = [runs EXCEPT ![r] =
                                 [IdleRun EXCEPT
                                     !.pc = "created",
                                     !.session_id = session_id,
                                     !.question = session_config.question,
                                     !.max_rounds = session_config.max_rounds,
                                     !.models = models,
                                     !.llms = models]]
                  /\ response' = Answer(recorded,
                                        HttpResponse("stream", session_id, 200))
                  /\ UNCHANGED <<settings, debate_graph, stop_signals,
                                 active_sessions, uuid_count>>

\* POST /api/debate/{session_id}/stop: lines 459-463
index_stop_debate(session_id, recorded) ==
    /\ active_sessions' = dict_pop(active_sessions, session_id)
    /\ runs' = [r \in DOMAIN runs |->
                   IF Running(runs[r]) /\ runs[r].session_id = session_id
                   THEN [runs[r] EXCEPT !.stop_seen = TRUE]
                   ELSE runs[r]]
    /\ response' = Answer(recorded, HttpResponse("stop", session_id, 200))
    /\ UNCHANGED <<settings, debate_graph, stop_signals, uuid_count>>

\* The generator r goes on as run.
IndexContinue(r, run) ==
    /\ runs' = [runs EXCEPT ![r] = run]
    /\ response' = NoResponse
    /\ UNCHANGED <<settings, debate_graph, stop_signals, active_sessions,
                   uuid_count>>

\* lines 385-393: the head of the while loop, up to the yield of round_start
index_while_head(run) ==
    IF ~(run.round_num < run.max_rounds)
    THEN [run EXCEPT !.pc = "done"]
    ELSE [Emit(run, StreamEvent("round_start", NoneVal,
                                "Round " \o ToString(run.round_num + 1),
                                NoneVal, run.round_num, run.max_rounds,
                                NoneVal))
            EXCEPT !.pc = "yield_round_start"]

\* lines 396-422 and 318-336: the for loop at participant i (0-based), up to
\* the yield of its stream_start or, after the last, of round_end
index_for_models(r, run, i) ==
    IF i < Len(run.llms)
    THEN LET selected_model == run.llms[i + 1]
             prompt == index_build_prompt(run.question, run.llms, i,
                                          run.round_num, run.latest_responses)
             message_id == message_uuid(r, run)
         IN  [Emit(run, StreamEvent("stream_start", selected_model.provider,
                                    "", message_id, run.round_num,
                                    run.max_rounds, selected_model.model_id))
                EXCEPT !.pc = "streaming", !.i = i, !.prompt = prompt,
                       !.message_id = message_id, !.full_content = "",
                       !.calls = Append(@, [position |-> i,
                                            round_num |-> run.round_num,
                                            prompt |-> prompt])]
    ELSE [Emit(run, StreamEvent("round_end", NoneVal,
                                "Round " \o ToString(run.round_num + 1)
                                    \o " complete",
                                NoneVal, run.round_num, run.max_rounds,
                                NoneVal))
            EXCEPT !.pc = "yield_round_end", !.i = i]

\* the first resumption of generate_events: lines 381-393
IndexBegin(r) ==
    /\ runs[r].pc = "created"
    /\ IndexContinue(r, index_while_head([runs[r] EXCEPT
                                             !.round_num = 0,
                                             !.latest_responses = << >>]))

\* resumed after round_start: the for loop starts
IndexModels(r) ==
    /\ runs[r].pc = "yield_round_start"
    /\ IndexContinue(r, index_for_models(r, runs[r], 0))

\* stream_model_response, lines 318-378, is _stream_response of graph.py
\* statement for statement: a fragment,
IndexStreamChunk(r, chunk_content) == StreamChunk(r, chunk_content)

\* the streaming call raises,
IndexStreamRaise(r, e) == StreamRaise(r, e)

\* the model's stream is exhausted,
IndexStreamExhausted(r) == StreamExhausted(r)

\* resumed after the error fragment
IndexStreamErrorResume(r) == StreamErrorResume(r)

\* lines 406-411: resumed after stream_end, the answer is stored, then the
\* next participant
IndexNextModel(r) ==
    /\ runs[r].pc = "yield_stream_end"
    /\ LET run == runs[r]
           full_content == Last(run.events).content
           selected_model == run.llms[run.i + 1]
       IN  IndexContinue(r,
             index_for_models(r,
                 [run EXCEPT !.latest_responses =
                     dict_set(@, model_key(selected_model), full_content)],
                 run.i + 1))

\* lines 422-437: resumed after round_end
IndexRoundEnd(r) ==
    /\ runs[r].pc = "yield_round_end"
    /\ LET run == runs[r]
           round_num == run.round_num + 1
       IN  IndexContinue(r,
             IF round_num >= run.max_rounds
             THEN [Emit(run, StreamEvent("debate_end", NoneVal,
                                         "Debate completed", NoneVal,
                                         round_num - 1, run.max_rounds,
                                         NoneVal))
                     EXCEPT !.round_num = round_num,
                            !.pc = "yield_debate_end"]
             ELSE [run EXCEPT !.round_num = round_num, !.pc = "sleeping"])

\* the sleep of line 437 is over: the while loop again
IndexWake(r) ==
    /\ runs[r].pc = "sleeping"
    /\ IndexContinue(r, index_while_head(runs[r]))

\* resumed after debate_end: break, and the generator returns
IndexBreak(r) ==
    /\ runs[r].pc = "yield_debate_end"
    /\ IndexContinue(r, [runs[r] EXCEPT !.pc = "done"])

\* lines 439-445: an exception reaches the except clause of generate_events
IndexRaise(r, e) ==
    /\ InTry(runs[r])
    /\ IndexContinue(r, [Emit(runs[r],
                              StreamEvent("error", NoneVal,
                                          LoopErrorType \o ": " \o e, NoneVal,
                                          runs[r].round_num, NoneInt, NoneVal))
                           EXCEPT !.pc = "yield_error"])

\* resumed after the error event: the generator returns
IndexErrorReturn(r) ==
    /\ runs[r].pc = "yield_error"
    /\ IndexContinue(r, [runs[r] EXCEPT !.pc = "done"])

InitIndex ==
    /\ settings \in [openai_api_key : {"", "sk-test"},
                     google_api_key : {"", "g-test"}]
    /\ debate_graph = FALSE
    /\ stop_signals = << >>
    /\ active_sessions = << >>
    /\ runs = [r \in RunIds |-> IdleRun]
    /\ uuid_count = 0
    /\ response = NoResponse

NextIndex ==
    \/ \E request \in IndexRequests : index_start_debate(request, TRUE)
    \/ \E session_id \in SessionIds, r \in RunIds :
           index_stream_debate(session_id, r, TRUE)
    \/ \E session_id \in SessionIds : index_stop_debate(session_id, TRUE)
    \/ \E r \in RunIds : IndexBegin(r)
    \/ \E r \in RunIds : IndexModels(r)
    \/ \E r \in RunIds, c \in ChunkTexts : IndexStreamChunk(r, c)
    \/ \E r \in RunIds, e \in StreamErrors : IndexStreamRaise(r, e)
    \/ \E r \in RunIds : IndexStreamExhausted(r)
    \/ \E r \in RunIds : IndexStreamErrorResume(r)
    \/ \E r \in RunIds : IndexNextModel(r)
    \/ \E r \in RunIds : IndexRoundEnd(r)
    \/ \E r \in RunIds : IndexWake(r)
    \/ \E r \in RunIds : IndexBreak(r)
    \/ \E r \in RunIds, e \in LoopErrors : IndexRaise(r, e)
    \/ \E r \in RunIds : IndexErrorReturn(r)

SpecIndex == InitIndex /\ [][NextIndex]_vars

-----------------------------------------------------------------------------
(* Reading a run's events *)

IsKind(event, kinds) == event.event_type \in kinds

StreamKinds == {"stream_start", "stream_chunk", "stream_end"}

EventsOfKind(run, kinds) ==
    SelectSeq(run.events, LAMBDA event : IsKind(event, kinds))

HasEvent(run, kinds) ==
    \E k \in DOMAIN run.events : IsKind(run.events[k], kinds)

\* an event without the text and the message id of a turn
Brief(event) ==
    [event EXCEPT !.content = IF IsKind(event, {"debate_end"}) THEN @ ELSE "",
                  !.message_id = NoneVal]

BriefAll(events) == [k \in DOMAIN events |-> Brief(events[k])]

RECURSIVE ExpectedTurns(_, _, _, _)
ExpectedTurns(models, k, round, limit) ==
    IF k > Len(models) THEN << >>
    ELSE << StreamEvent("stream_start", models[k].provider, "", NoneVal,
                        round, limit, models[k].model_id),
            StreamEvent("stream_end", models[k].provider, "", NoneVal,
                        round, limit, models[k].model_id) >>
         \o ExpectedTurns(models, k + 1, round, limit)

RECURSIVE ExpectedRounds(_, _, _)
ExpectedRounds(models, round, limit) ==
    IF round >= limit THEN << >>
    ELSE << StreamEvent("round_start", NoneVal, "", NoneVal, round, limit,
                        NoneVal) >>
         \o ExpectedTurns(models, 1, round, limit)
         \o << StreamEvent("round_end", NoneVal, "", NoneVal, round, limit,
                           NoneVal) >>
         \o ExpectedRounds(models, round + 1, limit)

\* the events of a completed debate, fragments left out
ExpectedDebate(models, limit) ==
    ExpectedRounds(models, 0, limit)
    \o << StreamEvent("debate_end", NoneVal, "Debate completed", NoneVal,
                      limit - 1, limit, NoneVal) >>

\* every fragment lies between the stream_start and the stream_end of its
\* message id
FragmentsInsideTurns(events) ==
    \A k \in DOMAIN events :
        IsKind(events[k], {"stream_chunk"}) =>
            /\ k > 1
            /\ IsKind(events[k - 1], {"stream_start", "stream_chunk"})
            /\ events[k - 1].message_id = events[k].message_id
            /\ k < Len(events)
            /\ IsKind(events[k + 1], {"stream_chunk", "stream_end"})
            /\ events[k + 1].message_id = events[k].message_id

RECURSIVE ConcatContents(_)
ConcatContents(events) ==
    IF events = << >> THEN ""
    ELSE Head(events).content \o ConcatContents(Tail(events))

\* the fragments of message id m, concatenated in emission order
Reconstructed(run, m) ==
    ConcatContents(SelectSeq(run.events,
                             LAMBDA event : /\ IsKind(event, {"stream_chunk"})
                                            /\ event.message_id = m))

\* adapter construction failed in this run
ConstructionFailed(run) ==
    /\ run.pc \notin {"idle", "created"}
    /\ \E k \in DOMAIN run.models : ~create_llm(settings, run.models[k]).ok

FirstFailing(run) ==
    CHOOSE k \in DOMAIN run.models :
        /\ ~create_llm(settings, run.models[k]).ok
        /\ \A j \in 1..(k - 1) : create_llm(settings, run.models[j]).ok

-----------------------------------------------------------------------------
(* C1 *)

\* C1: a run with at least 2 participants and a round limit of at least 1,
\* in which the stop signal is never set, every adapter is built and no
\* exception reaches run_debate, has emitted when it ends: for each round in
\* order round_start, then for each participant in configured order one
\* stream_start, fragments and one stream_end, then round_end; and last a
\* single debate_end "Debate completed" carrying the last round's index.
C1_CompletedRunEvents ==
    \A r \in DOMAIN runs :
        LET run == runs[r] IN
        ( /\ run.pc = "done"
          /\ ~run.stop_seen
          /\ ~ConstructionFailed(run)
          /\ ~HasEvent(run, {"error"})
          /\ Len(run.models) >= 2
          /\ run.max_rounds >= 1 )
        => /\ BriefAll(EventsOfKind(run, {"round_start", "stream_start",
                                          "stream_end", "round_end",
                                          "debate_end", "error"}))
                = ExpectedDebate(run.models, run.max_rounds)
           /\ FragmentsInsideTurns(run.events)

\* a run of three participants and two rounds has completed, with a fragment
C1_Witness ==
    \E r \in DOMAIN runs :
        /\ runs[r].pc = "done"
        /\ ~runs[r].stop_seen
        /\ ~HasEvent(runs[r], {"error"})
        /\ Len(runs[r].models) = 3
        /\ runs[r].max_rounds = 2
        /\ HasEvent(runs[r], {"stream_chunk"})
        /\ Last(runs[r].events).content = "Debate completed"

-----------------------------------------------------------------------------
(* C2 *)

\* C2: for every message id, the contents of its stream_chunk events
\* concatenated in emission order equal the content of its stream_end event,
\* also when the streaming call raised after it had produced fragments.
C2_ReconstructionRoundTrip ==
    \A r \in DOMAIN runs :
        \A k \in DOMAIN runs[r].events :
            LET event == runs[r].events[k] IN
            IsKind(event, {"stream_end"}) =>
                Reconstructed(runs[r], event.message_id) = event.content

-----------------------------------------------------------------------------
(* C3 *)

\* stop has just been answered "stopped" for a session no stream was ever
\* opened on, and the step is the next request, a stream of the same session
StopThenStream ==
    /\ response.op = "stop"
    /\ response.status = 200
    /\ \A r \in DOMAIN runs : runs[r].pc = "idle"
    /\ response'.op = "stream"
    /\ response'.session_id = response.session_id

\* C3 as claimed: after stop(s) on a started session with no stream opened
\* yet, the following stream(s) is served, and the run it opens emits
\* debate_end "Debate stopped by user" at once and no message event.
C3_StreamAfterStopEndsAtOnce ==
    /\ [][StopThenStream =>
            /\ response'.status = 200
            /\ \E r \in DOMAIN runs : runs'[r].pc = "created"]_vars
    /\ [][\A r \in DOMAIN runs :
            ( /\ runs[r].pc = "created"
              /\ is_stopped(stop_signals, runs[r].session_id)
              /\ runs'[r].pc \notin {"created", "yield_init_error"} )
            => runs'[r].events = << debate_end_stopped(runs'[r]) >>]_vars

\* C3 amended: after stop(s) on a started session with no stream opened yet,
\* the following stream(s) is answered not-found: no run is started, so
\* there is no event at all, neither debate_end nor a message event.
C3_StreamAfterStopNotFound ==
    [][StopThenStream =>
          /\ response'.status = 404
          /\ runs' = runs
          /\ UNCHANGED <<active_sessions, stop_signals>>]_vars

\* stream(s1) was answered not-found after a stop of s1 that set its signal,
\* and no stream was ever opened
C3_Witness ==
    /\ response = HttpResponse("stream", "s1", 404)
    /\ is_stopped(stop_signals, "s1")
    /\ "s1" \notin DOMAIN active_sessions
    /\ \A r \in DOMAIN runs : runs[r].pc = "idle"

-----------------------------------------------------------------------------
(* C4, C5 *)

\* the generator r returns in this step
RunEnds(r) == runs[r].pc # "done" /\ runs'[r].pc = "done"

\* C4: when a run ends, in whatever way, the stop signal of its session is
\* clear right after.
C4_SignalClearWhenRunEnds ==
    [][\A r \in DOMAIN runs :
          RunEnds(r) => ~is_stopped(stop_signals', runs[r].session_id)]_vars

\* C5: when a stream has run to its end, the session is no longer in the
\* registry (so that a later stream or stop is answered not-found).
C5_SessionDeletedWhenStreamEnds ==
    [][\A r \in DOMAIN runs :
          RunEnds(r) => runs[r].session_id \notin DOMAIN active_sessions']_vars

-----------------------------------------------------------------------------
(* C6 *)

\* C6: right after a start that was accepted, the stop signal of the started
\* session is not set, whatever came before.
C6_SignalClearAfterStart ==
    (response.op = "start" /\ response.status = 200)
        => ~is_stopped(stop_signals, response.session_id)

-----------------------------------------------------------------------------
(* C7 *)

\* C7: when the adapter of a participant cannot be built, at whatever
\* position, the run emits exactly one event, an error event naming that
\* participant's provider, and passes no prompt to any model; it emits no
\* round_start, stream_start or debate_end.
C7_ConstructionFailureEmitsOneError ==
    \A r \in DOMAIN runs :
        LET run == runs[r] IN
        ConstructionFailed(run) =>
            LET selected_model == run.models[FirstFailing(run)] IN
            /\ run.pc \in {"yield_init_error", "done"}
            /\ run.calls = << >>
            /\ run.events =
                 << StreamEvent("error", NoneVal,
                                "Failed to initialize "
                                    \o selected_model.provider \o ": "
                                    \o create_llm(settings, selected_model).error,
                                NoneVal, 0, NoneInt, NoneVal) >>

\* a run has ended whose third adapter could not be built, the two before
\* it could
C7_Witness ==
    \E r \in DOMAIN runs :
        /\ runs[r].pc = "done"
        /\ ConstructionFailed(runs[r])
        /\ FirstFailing(runs[r]) = 3
        /\ Len(runs[r].events) = 1

-----------------------------------------------------------------------------
(* C8 *)

\* a fragment that carries the bracketed text of a streaming call that raised
IsErrorFragment(event) ==
    /\ IsKind(event, {"stream_chunk"})
    /\ \E e \in StreamErrors : event.content = error_text(e)

\* the position in events of the stream_start of the j-th call
StartIndex(run, j) ==
    CHOOSE k \in DOMAIN run.events :
        /\ IsKind(run.events[k], {"stream_start"})
        /\ Cardinality({m \in 1..k : IsKind(run.events[m], {"stream_start"})}) = j

\* the stream_end events before position k of a participant with this key
EndsBefore(run, k, key) ==
    {m \in 1..(k - 1) :
        /\ IsKind(run.events[m], {"stream_end"})
        /\ run.events[m].provider \o "_" \o run.events[m].model_id = key}

Max(S) == CHOOSE x \in S : \A y \in S : y <= x

\* C8: when a participant's streaming call raises, no error event is
\* emitted for it and the run goes on: the bracketed text "[Error: <message>]"
\* is followed by the turn's stream_end with that text as content; the text
\* is recorded as the participant's latest response; a later critique of
\* that participant embeds it; and a run in which a call raised, with no
\* stop and no other failure, emits the events of a completed debate.
C8_StreamingErrorRecovered ==
    \A r \in DOMAIN runs :
        LET run == runs[r]
            events == run.events
        IN
        /\ \A k \in DOMAIN events :
              IsKind(events[k], {"error"}) =>
                  \A e \in StreamErrors :
                      events[k].content \notin {e, error_text(e)}
        /\ \A k \in DOMAIN events :
              IsErrorFragment(events[k]) =>
                  /\ k = Len(events) => run.pc = "yield_error_chunk"
                  /\ (k < Len(events) /\ ~IsKind(events[k + 1], {"error"})) =>
                        events[k + 1] = [events[k] EXCEPT
                                            !.event_type = "stream_end"]
                  /\ ( /\ k + 1 < Len(events)
                       /\ ~IsKind(events[k + 1], {"error"})
                       /\ ~IsKind(events[k + 2], {"error"})
                       /\ EndsBefore(run, Len(events) + 1,
                                     events[k].provider \o "_"
                                         \o events[k].model_id)
                              \subseteq 1..(k + 1) )
                     => dict_get(run.latest_responses,
                                 events[k].provider \o "_" \o events[k].model_id,
                                 "") = events[k].content
        /\ \A j \in DOMAIN run.calls :
              run.calls[j].round_num > 0 =>
                  LET other == run.llms[((run.calls[j].position + 1)
                                            % Len(run.llms)) + 1]
                      ends == EndsBefore(run, StartIndex(run, j),
                                         model_key(other))
                  IN  (ends # {} /\ \E e \in StreamErrors :
                          events[Max(ends)].content = error_text(e))
                      => run.calls[j].prompt =
                           critique_prompt(
                               get_model_display_name(other.provider,
                                                      other.model_id),
                               events[Max(ends)].content, run.question)
        /\ ( /\ run.pc = "done"
             /\ \E k \in DOMAIN events : IsErrorFragment(events[k])
             /\ ~run.stop_seen
             /\ ~HasEvent(run, {"error"}) )
           => BriefAll(EventsOfKind(run, {"round_start", "stream_start",
                                          "stream_end", "round_end",
                                          "debate_end"}))
                = ExpectedDebate(run.models, run.max_rounds)

\* a run has completed in which a streaming call of round 0 raised and a
\* prompt of round 1 embeds the bracketed text
C8_Witness ==
    \E r \in DOMAIN runs :
        LET run == runs[r] IN
        /\ run.pc = "done"
        /\ Last(run.events).content = "Debate completed"
        /\ \E k \in DOMAIN run.events :
              /\ IsErrorFragment(run.events[k])
              /\ run.events[k].round_number = 0
              /\ \E j \in DOMAIN run.calls :
                    /\ run.calls[j].round_num = 1
                    /\ run.calls[j].prompt =
                         critique_prompt(
                             get_model_display_name(run.events[k].provider,
                                                    run.events[k].model_id),
                             run.events[k].content, run.question)

-----------------------------------------------------------------------------
(* C9 *)

\* the calls before the j-th made for the participant at position p
CallsOf(run, j, p) == {m \in 1..(j - 1) : run.calls[m].position = p}

\* C9: in every round after the first, the response embedded in the prompt
\* of the participant at position i is the content of the latest stream_end
\* of the participant at position (i+1) mod n, empty if it has none; also
\* when two positions have the same provider and model id.
C9_CritiquesNextPosition ==
    \A r \in DOMAIN runs :
        LET run == runs[r] IN
        \A j \in DOMAIN run.calls :
            run.calls[j].round_num > 0 =>
                LET p == (run.calls[j].position + 1) % Len(run.llms)
                    other == run.llms[p + 1]
                    earlier == CallsOf(run, j, p)
                    expected ==
                        IF earlier = {} THEN ""
                        ELSE EventsOfKind(run, {"stream_end"})[Max(earlier)]
                                .content
                IN  run.calls[j].prompt =
                        critique_prompt(
                            get_model_display_name(other.provider,
                                                   other.model_id),
                            expected, run.question)

-----------------------------------------------------------------------------
(* C10 *)

\* C10: every prompt passed to a model in round 0 is the question itself,
\* whatever the participant's position, the number of participants and the
\* answers given before in that round; so is the round-0 prompt that
\* build_prompt of api/index.py computes from the same values.
C10_RoundZeroPromptIsQuestion ==
    \A r \in DOMAIN runs :
        LET run == runs[r] IN
        /\ \A j \in DOMAIN run.calls :
              run.calls[j].round_num = 0 =>
                  run.calls[j].prompt = run.question
        /\ \A i \in 0..(Len(run.llms) - 1) :
              index_build_prompt(run.question, run.llms, i, 0,
                                 run.latest_responses) = run.question

\* the third participant of three has been given its round-0 prompt after
\* an earlier participant of that round answered with some text
C10_Witness ==
    \E r \in DOMAIN runs :
        LET run == runs[r] IN
        /\ Len(run.calls) = 3
        /\ run.calls[3].round_num = 0
        /\ run.calls[3].position = 2
        /\ \E key \in DOMAIN run.latest_responses :
              run.latest_responses[key] # ""

-----------------------------------------------------------------------------
(* C11 *)

\* the events of the given kinds that carry round index q
CountInRound(run, kinds, q) ==
    Cardinality({k \in DOMAIN run.events :
                    /\ IsKind(run.events[k], kinds)
                    /\ run.events[k].round_number = q})

\* C11: in a run that has ended without an error event, every round whose
\* round_start was emitted has a stream_start and a stream_end for every
\* participant and is closed by its round_end, also when stop was called
\* while the round was in progress.
C11_StartedRoundRunsToItsEnd ==
    \A r \in DOMAIN runs :
        LET run == runs[r] IN
        (run.pc = "done" /\ ~HasEvent(run, {"error"})) =>
            \A k \in DOMAIN run.events :
                IsKind(run.events[k], {"round_start"}) =>
                    LET q == run.events[k].round_number IN
                    /\ CountInRound(run, {"stream_start"}, q) = Len(run.llms)
                    /\ CountInRound(run, {"stream_end"}, q) = Len(run.llms)
                    /\ \E j \in DOMAIN run.events :
                          /\ j > k
                          /\ IsKind(run.events[j], {"round_end"})
                          /\ run.events[j].round_number = q

-----------------------------------------------------------------------------
(* C12 *)

\* the event is a fragment or the stream_end of message m
GoesOnTurn(event, m) ==
    /\ IsKind(event, {"stream_chunk", "stream_end"})
    /\ event.message_id = m

\* C12: after a stream_start with message id m, the run emits fragments of m
\* and then the stream_end of m; nothing else comes in between, whether or
\* not stop is called during the turn. Said of each event of an open turn
\* (its stream_start and its fragments): the next event is a fragment or the
\* stream_end of the same message. (The one event that can take the place
\* of the stream_end is the error event of a run that an exception aborts.)
\* A run that has ended without an error event has left no turn open.
C12_TurnsDoNotInterleave ==
    \A r \in DOMAIN runs :
        LET run == runs[r]
            events == run.events
        IN  \A k \in DOMAIN events :
                IsKind(events[k], {"stream_start", "stream_chunk"}) =>
                    /\ k < Len(events) =>
                          \/ GoesOnTurn(events[k + 1], events[k].message_id)
                          \/ /\ IsKind(events[k + 1], {"error"})
                             /\ k + 1 = Len(events)
                    /\ (run.pc = "done" /\ ~HasEvent(run, {"error"})) =>
                          k < Len(events)

\* stop was called during the first turn of a run: the turn went on to its
\* fragment and its stream_end, and the run ended stopped before the second
\* participant
C12_Witness ==
    \E r \in DOMAIN runs :
        LET run == runs[r] IN
        /\ run.pc = "done"
        /\ run.stop_seen
        /\ Len(run.events) = 5
        /\ IsKind(run.events[2], {"stream_start"})
        /\ IsKind(run.events[3], {"stream_chunk"})
        /\ IsKind(run.events[4], {"stream_end"})
        /\ run.events[5] = debate_end_stopped(run)

-----------------------------------------------------------------------------
(* C13 *)

\* the step is a stream or a stop request that names a session the registry
\* does not hold
UnknownSessionRequest ==
    /\ response'.op \in {"stream", "stop"}
    /\ response'.session_id \notin DOMAIN active_sessions

\* C13: a stream or a stop that names a session not in the registry is
\* answered not-found and changes nothing: no run is started, no stop
\* signal is set, the registry stays as it is.
C13_UnknownSessionNotFound ==
    [][UnknownSessionRequest =>
          /\ response'.status = 404
          /\ UNCHANGED <<runs, stop_signals, active_sessions, uuid_count>>]_vars

\* stop(s1) was answered not-found; nothing was started and no stop signal
\* is set
C13_Witness ==
    /\ response = HttpResponse("stop", "s1", 404)
    /\ "s1" \notin DOMAIN active_sessions
    /\ stop_signals = << >>
    /\ \A r \in DOMAIN runs : runs[r].pc = "idle"

-----------------------------------------------------------------------------
(* C14 *)

\* the step is a stop request that names a session the registry holds
KnownSessionStop ==
    /\ response'.op = "stop"
    /\ response'.session_id \in DOMAIN active_sessions

-----------------------------------------------------------------------------
(* C20 *)

\* C20: every session in the registry has a round limit in 1..20; a start
\* whose limit is outside 1..20 is answered with a validation failure and
\* neither creates nor overwrites a session; a start without a limit stores
\* the limit 2, a start with a limit in 1..20 stores that limit.
C20_RoundLimitInRange ==
    /\ [](\A session_id \in DOMAIN active_sessions :
            active_sessions[session_id].max_rounds \in 1..20)
    /\ [][\A request \in ApiRequests :
            start_debate(request, TRUE) =>
                IF request.max_rounds = NoneInt
                THEN /\ response'.status = 200
                     /\ active_sessions'[response'.session_id].max_rounds = 2
                ELSE IF request.max_rounds \in 1..20
                THEN /\ response'.status = 200
                     /\ active_sessions'[response'.session_id].max_rounds
                            = request.max_rounds
                ELSE /\ response'.status = 422
                     /\ UNCHANGED <<active_sessions, stop_signals, runs,
                                    uuid_count>>]_vars

\* a start was just answered with a validation failure, and the session
\* stored before it, with the greatest limit, is still there
C20_Witness ==
    /\ response = HttpResponse("start", "s1", 422)
    /\ "s1" \in DOMAIN active_sessions
    /\ active_sessions["s1"].max_rounds = 20

-----------------------------------------------------------------------------
(* C15 *)

\* C15: in every run the round_number fields of the events, in emission
\* order and with the closing debate_end or error event, never decrease.
C15_RoundNumbersNonDecreasing ==
    \A r \in DOMAIN runs :
        \A k \in DOMAIN runs[r].events :
            k > 1 => runs[r].events[k - 1].round_number
                        <= runs[r].events[k].round_number

\* a run was aborted by an exception after its first round: the error event
\* carries the index of the second round
C15_Witness ==
    \E r \in DOMAIN runs :
        LET run == runs[r] IN
        /\ run.pc = "done"
        /\ IsKind(Last(run.events), {"error"})
        /\ Last(run.events).round_number = 1
        /\ CountInRound(run, {"round_end"}, 0) = 1

-----------------------------------------------------------------------------
(* C16 *)

\* the events of the given kinds before position k
CountBefore(events, kinds, k) ==
    Cardinality({j \in 1..(k - 1) : IsKind(events[j], kinds)})

\* C16: in every run, stopped or not, the rounds are opened and closed in
\* turn: round_start(q) comes when q rounds have been opened and q closed,
\* round_end(q) when q + 1 rounds have been opened and q closed. So
\* round_end(q) follows round_start(q), and round_start(q + 1) follows
\* round_end(q).
C16_RoundsOpenedAndClosedInTurn ==
    \A r \in DOMAIN runs :
        LET events == runs[r].events IN
        \A k \in DOMAIN events :
            LET q == events[k].round_number IN
            /\ IsKind(events[k], {"round_start"}) =>
                  /\ CountBefore(events, {"round_start"}, k) = q
                  /\ CountBefore(events, {"round_end"}, k) = q
            /\ IsKind(events[k], {"round_end"}) =>
                  /\ CountBefore(events, {"round_start"}, k) = q + 1
                  /\ CountBefore(events, {"round_end"}, k) = q

\* a run in which stop was called has opened its second round
C16_Witness ==
    \E r \in DOMAIN runs :
        /\ runs[r].stop_seen
        /\ CountInRound(runs[r], {"round_start"}, 1) = 1

-----------------------------------------------------------------------------
(* C17 *)

\* C17: debate_end and error close a run: no event follows one, so a run
\* has at most one event of these two kinds.
C17_TerminalEventIsLast ==
    \A r \in DOMAIN runs :
        \A k \in DOMAIN runs[r].events :
            IsKind(runs[r].events[k], {"debate_end", "error"})
                => k = Len(runs[r].events)

\* a stopped run has returned after its debate_end, which followed a turn
C17_Witness ==
    \E r \in DOMAIN runs :
        LET run == runs[r] IN
        /\ run.pc = "done"
        /\ Len(run.events) >= 4
        /\ Last(run.events) = debate_end_stopped(run)

-----------------------------------------------------------------------------
(* C18 *)

\* the stream_start events of round q, in emission order
StartsOfRound(run, q) ==
    SelectSeq(run.events, LAMBDA event : /\ IsKind(event, {"stream_start"})
                                         /\ event.round_number = q)

\* C18: every stream_start, stream_chunk and stream_end carries the provider
\* and the model id of a participant of the session's list, and the
\* stream_start events of a round follow the list from its first position.
C18_ParticipantsOfTheList ==
    \A r \in DOMAIN runs :
        LET run == runs[r] IN
        /\ \A k \in DOMAIN run.events :
              IsKind(run.events[k], StreamKinds) =>
                  \E i \in DOMAIN run.models :
                      run.models[i] = SelectedModel(run.events[k].provider,
                                                    run.events[k].model_id)
        /\ \A q \in 0..(run.max_rounds - 1) :
              LET starts == StartsOfRound(run, q) IN
              /\ Len(starts) <= Len(run.models)
              /\ \A n \in DOMAIN starts :
                    run.models[n] = SelectedModel(starts[n].provider,
                                                  starts[n].model_id)

\* the second round of a run of three participants has had all its turns
C18_Witness ==
    \E r \in DOMAIN runs :
        /\ Len(runs[r].models) = 3
        /\ Len(StartsOfRound(runs[r], 1)) = 3

-----------------------------------------------------------------------------
(* C19 *)

\* the stream_end events after position k that carry message id m
EndsAfter(events, k, m) ==
    {j \in (k + 1)..Len(events) :
        IsKind(events[j], {"stream_end"}) /\ events[j].message_id = m}

\* the message ids of the message events
MessageIds(events) ==
    {events[k].message_id :
        k \in {j \in DOMAIN events : IsKind(events[j], StreamKinds)}}

\* C19: a stream_start carries a message id that no earlier event of the run
\* carries, so that a message id has one stream_start; a fragment and a
\* stream_end carry the id of the event before them, which is the
\* stream_start or a fragment of their turn; a message id has at most one
\* stream_end, and exactly one once the run has ended without an error
\* event; a run that completes R rounds of N participants has emitted N*R
\* message ids.
C19_MessageIdsUnique ==
    \A r \in DOMAIN runs :
        LET run == runs[r]
            events == run.events
        IN  /\ \A k \in DOMAIN events :
                  /\ IsKind(events[k], {"stream_start"}) =>
                        /\ \A j \in 1..(k - 1) :
                              events[j].message_id # events[k].message_id
                        /\ Cardinality(EndsAfter(events, k,
                                                 events[k].message_id)) <= 1
                        /\ (run.pc = "done" /\ ~HasEvent(run, {"error"})) =>
                              EndsAfter(events, k, events[k].message_id) # {}
                  /\ IsKind(events[k], {"stream_chunk", "stream_end"}) =>
                        /\ k > 1
                        /\ IsKind(events[k - 1], {"stream_start",
                                                  "stream_chunk"})
                        /\ events[k - 1].message_id = events[k].message_id
            /\ ( /\ events # << >>
                 /\ Last(events).content = "Debate completed" ) =>
                  Cardinality(MessageIds(events))
                      = Len(run.models) * run.max_rounds

\* a run of three participants and two rounds has completed with six
\* message ids
C19_Witness ==
    \E r \in DOMAIN runs :
        /\ runs[r].events # << >>
        /\ Last(runs[r].events).content = "Debate completed"
        /\ Len(runs[r].models) = 3
        /\ runs[r].max_rounds = 2
        /\ Cardinality(MessageIds(runs[r].events)) = 6

-----------------------------------------------------------------------------
(* C21 *)

\* C21: a start whose round limit is 0 is accepted and stores the default
\* limit 2, as a start without a limit does; and no run has a round limit
\* outside 1..20.
C21_ZeroRoundsFallsBack ==
    /\ [][\A request \in ApiRequests :
            (request.max_rounds = 0 /\ start_debate(request, TRUE)) =>
                /\ response'.status = 200
                /\ active_sessions'[response'.session_id].max_rounds = 2]_vars
    /\ [](\A r \in DOMAIN runs :
            runs[r].pc # "idle" => runs[r].max_rounds \in 1..20)

-----------------------------------------------------------------------------
(* C22 *)

\* the list a start is to store and return for the list it was given
ParticipantsFor(models) ==
    IF models = NoModels \/ Len(models) <= 1
    THEN << SelectedModel("openai", "gpt-4.1"),
            SelectedModel("gemini", "gemini-2.5-flash") >>
    ELSE models

-----------------------------------------------------------------------------
(* C23 *)

IsStoppedEnd(event) ==
    /\ IsKind(event, {"debate_end"})
    /\ event.content = "Debate stopped by user"

\* C23: round_start is emitted before the stop signal is looked at, so a
\* debate_end "Debate stopped by user" never opens a run and never follows
\* a round_end directly: when the signal is found set at the start of round
\* q, the event before that debate_end is round_start(q). (Where the event
\* before it is a stream_end, the signal was found later in the round.)
C23_RoundStartBeforeStopCheck ==
    \A r \in DOMAIN runs :
        LET events == runs[r].events IN
        \A k \in DOMAIN events :
            IsStoppedEnd(events[k]) =>
                /\ k > 1
                /\ \/ /\ IsKind(events[k - 1], {"round_start"})
                      /\ events[k - 1].round_number = events[k].round_number
                   \/ IsKind(events[k - 1], {"stream_end"})

-----------------------------------------------------------------------------
(* C24 *)

\* an error event of the except clause of run_debate
IsLoopError(run, event) ==
    /\ IsKind(event, {"error"})
    /\ ~ConstructionFailed(run)

\* C24: when an exception reaches the except clause of the round loop, the
\* run emits one error event and nothing after it, and no debate_end at
\* all; the error event carries the round index of the moment, which is
\* the index of the round that was opened last or, after its round_end and
\* the increment, the next.
C24_LoopExceptionEmitsOneError ==
    \A r \in DOMAIN runs :
        LET run == runs[r]
            events == run.events
        IN  \A k \in DOMAIN events :
                IsLoopError(run, events[k]) =>
                    /\ k = Len(events)
                    /\ ~HasEvent(run, {"debate_end"})
                    /\ CountBefore(events, {"error"}, k) = 0
                    /\ events[k].round_number = run.round_num
                    /\ events[k].round_number
                          \in { CountBefore(events, {"round_start"}, k) - 1,
                                CountBefore(events, {"round_end"}, k) }

\* a run was aborted by an exception in a turn of its second round and has
\* returned
C24_Witness ==
    \E r \in DOMAIN runs :
        LET run == runs[r] IN
        /\ run.pc = "done"
        /\ Len(run.events) >= 2
        /\ IsLoopError(run, Last(run.events))
        /\ Last(run.events).round_number = 1
        /\ IsKind(run.events[Len(run.events) - 1], {"stream_start"})

-----------------------------------------------------------------------------
(* C25 *)

\* the run r is in progress, stop was called for its session, and the
\* round_end of its last round has not been emitted
StoppedInTime(r) ==
    /\ Running(runs[r])
    /\ runs[r].stop_seen
    /\ CountInRound(runs[r], {"round_end"}, runs[r].max_rounds - 1) = 0

\* the run r has returned, and its last event is debate_end "Debate stopped
\* by user" or, where the run failed, an error event
EndedStopped(r) ==
    /\ runs[r].pc = "done"
    /\ runs[r].events # << >>
    /\ \/ IsStoppedEnd(Last(runs[r].events))
       \/ IsKind(Last(runs[r].events), {"error"})

-----------------------------------------------------------------------------
(* C26 *)

\* C26: with model calls that end and a consumer that keeps reading, every
\* run returns; it emits at most as many round_start events as its round
\* limit, and when it has returned its last event is a debate_end or an
\* error event.
C26_EveryRunEnds ==
    /\ [](\A r \in DOMAIN runs :
            /\ Len(EventsOfKind(runs[r], {"round_start"}))
                  <= runs[r].max_rounds
            /\ runs[r].pc = "done" =>
                  /\ runs[r].events # << >>
                  /\ IsKind(Last(runs[r].events), {"debate_end", "error"}))
    /\ \A r \in RunIds : (runs[r].pc # "idle") ~> (runs[r].pc = "done")

\* a run with the round limit 2 has returned after two rounds
C26_Witness ==
    \E r \in DOMAIN runs :
        /\ runs[r].pc = "done"
        /\ runs[r].max_rounds = 2
        /\ Len(EventsOfKind(runs[r], {"round_start"})) = 2
        /\ IsKind(Last(runs[r].events), {"debate_end"})

-----------------------------------------------------------------------------
(* C27 *)

\* no two participants of the run have the same provider and model id
PairwiseDistinct(run) ==
    \A i, j \in DOMAIN run.llms :
        model_key(run.llms[i]) = model_key(run.llms[j]) => i = j

\* the content of the stream_end of the participant at position p in round q
AnswerOf(run, p, q) ==
    LET k == CHOOSE k \in DOMAIN run.events :
                 /\ IsKind(run.events[k], {"stream_end"})
                 /\ run.events[k].round_number = q
                 /\ run.events[k].provider = run.llms[p + 1].provider
                 /\ run.events[k].model_id = run.llms[p + 1].model_id
    IN  run.events[k].content

-----------------------------------------------------------------------------
(* C28 *)

\* the step changes what the server holds for the session t: its entry in
\* the registry, its stop signal, or a generator that runs for it
Touched(t) ==
    \/ (t \in DOMAIN active_sessions) # (t \in DOMAIN active_sessions')
    \/ /\ t \in DOMAIN active_sessions
       /\ t \in DOMAIN active_sessions'
       /\ active_sessions'[t] # active_sessions[t]
    \/ (t \in DOMAIN stop_signals) # (t \in DOMAIN stop_signals')
    \/ is_stopped(stop_signals', t) # is_stopped(stop_signals, t)
    \/ \E r \in DOMAIN runs :
          /\ runs[r].session_id = t \/ runs'[r].session_id = t
          /\ runs'[r] # runs[r]

\* the step is a start or a stop for the session s, or the return of a
\* generator that runs for it
StartStopOrReturn(s) ==
    \/ \E request \in PairRequests :
          request.session_id = s /\ start_debate(request, FALSE)
    \/ stop_debate(s, FALSE)
    \/ \E r \in DOMAIN runs :
          /\ runs[r].session_id = s
          /\ runs[r].pc # "done"
          /\ runs'[r].pc = "done"

\* C28: with two sessions streamed side by side, no step changes what the
\* server holds for both; a start, a stop or the return of a run for one
\* session leaves the other session's registry entry, stop signal and run as
\* they are; a run ends with "Debate stopped by user" only if stop was called
\* for its own session, and a run that was not stopped and met no failure
\* emits the events of the whole debate.
C28_SessionsAreIsolated ==
    /\ [][\A s, t \in PairSessionIds :
            s # t => ~(Touched(s) /\ Touched(t))]_vars
    /\ [][\A s, t \in PairSessionIds :
            (s # t /\ StartStopOrReturn(s)) => ~Touched(t)]_vars
    /\ [](\A r \in DOMAIN runs :
            LET run == runs[r] IN
            /\ (\E k \in DOMAIN run.events : IsStoppedEnd(run.events[k]))
                  => run.stop_seen
            /\ ( /\ run.pc = "done"
                 /\ ~run.stop_seen
                 /\ ~ConstructionFailed(run)
                 /\ ~HasEvent(run, {"error"}) )
               => BriefAll(EventsOfKind(run, {"round_start", "stream_start",
                                              "stream_end", "round_end",
                                              "debate_end", "error"}))
                     = ExpectedDebate(run.models, run.max_rounds))

\* the run for "s1" was stopped and has returned, its signal cleared, while
\* the run for "s2" is in its second round, not stopped, its session in the
\* registry
C28_Witness ==
    /\ runs["r1"].pc = "done"
    /\ runs["r1"].stop_seen
    /\ IsStoppedEnd(Last(runs["r1"].events))
    /\ "s1" \notin DOMAIN stop_signals
    /\ "s1" \notin DOMAIN active_sessions
    /\ runs["r2"].pc = "streaming"
    /\ runs["r2"].session_id = "s2"
    /\ runs["r2"].round_num = 1
    /\ ~runs["r2"].stop_seen
    /\ "s2" \in DOMAIN active_sessions

-----------------------------------------------------------------------------
(* C29 *)

\* C29: at the serverless entry point a stop for a session whose stream is
\* in progress sets a stop signal for it, the stream starts no round after
\* the stop, and once it has returned its last event is a debate_end.
C29_ServerlessStopEndsTheStream ==
    /\ [][\A session_id \in SessionIds :
            ( /\ index_stop_debate(session_id, TRUE)
              /\ \E r \in DOMAIN runs :
                    Running(runs[r]) /\ runs[r].session_id = session_id )
            => is_stopped(stop_signals', session_id)]_vars
    /\ [][\A r \in DOMAIN runs :
            (Running(runs[r]) /\ runs[r].stop_seen) =>
                Len(EventsOfKind(runs'[r], {"round_start"}))
                    = Len(EventsOfKind(runs[r], {"round_start"}))]_vars
    /\ [](\A r \in DOMAIN runs :
            (runs[r].pc = "done" /\ runs[r].stop_seen) =>
                IsKind(Last(runs[r].events), {"debate_end"}))

-----------------------------------------------------------------------------
(* C30 *)

\* C30: at the serverless entry point a stop that names a session not in
\* the registry is answered not-found.
C30_ServerlessStopUnknownNotFound ==
    [][\A session_id \in SessionIds :
          ( /\ session_id \notin DOMAIN active_sessions
            /\ index_stop_debate(session_id, TRUE) )
          => response'.status = 404]_vars

-----------------------------------------------------------------------------
(* C31 *)

\* stop was called for the session of the runs r and u while both ran
StoppedTogether(r, u) ==
    /\ r # u
    /\ runs[r].session_id = runs[u].session_id
    /\ runs[r].stop_seen
    /\ runs[u].stop_seen

\* C31: when two streams of one session are in progress and stop is called
\* for the session, neither run starts a round any more, and each returns
\* with debate_end "Debate stopped by user" (or with the error event of a
\* failure) as its last event, whichever of the two ends first.
C31_OneStopStopsBothStreams ==
    [][\A r, u \in DOMAIN runs :
          (StoppedTogether(r, u) /\ Running(runs[r])) =>
              /\ Len(EventsOfKind(runs'[r], {"round_start"}))
                    = Len(EventsOfKind(runs[r], {"round_start"}))
              /\ runs'[r].pc = "done" =>
                    \/ IsStoppedEnd(Last(runs'[r].events))
                    \/ IsKind(Last(runs'[r].events), {"error"})]_vars

-----------------------------------------------------------------------------
(* C32 *)

\* the question, the round limit and the participants a run works with
ConfigOf(run) ==
    [question |-> run.question, max_rounds |-> run.max_rounds,
     models |-> run.models]

\* C32: a run takes its question, round limit and participants from the
\* registry when its stream is opened and keeps them: no step, a later start
\* or a stop for its session among them, changes them; every event carries
\* that round limit, every turn is a listed participant's, and every round-0
\* prompt is that question.
C32_RunConfigurationIsFixed ==
    /\ [][\A r \in DOMAIN runs :
            /\ (runs[r].pc = "idle" /\ runs'[r].pc # "idle") =>
                  /\ runs'[r].session_id \in DOMAIN active_sessions
                  /\ ConfigOf(runs'[r])
                        = active_sessions[runs'[r].session_id]
            /\ runs[r].pc # "idle" =>
                  /\ ConfigOf(runs'[r]) = ConfigOf(runs[r])
                  /\ runs'[r].session_id = runs[r].session_id]_vars
    /\ [](\A r \in DOMAIN runs :
            LET run == runs[r] IN
            /\ \A k \in DOMAIN run.events :
                  /\ run.events[k].max_rounds \in {NoneInt, run.max_rounds}
                  /\ IsKind(run.events[k], StreamKinds) =>
                        \E m \in DOMAIN run.models :
                            /\ run.models[m].provider = run.events[k].provider
                            /\ run.models[m].model_id = run.events[k].model_id
            /\ \A j \in DOMAIN run.calls :
                  run.calls[j].round_num = 0 =>
                      run.calls[j].prompt = run.question)

\* a run is in its second round while the registry holds, under its session
\* id, another question, another round limit and other participants
C32_Witness ==
    \E r \in DOMAIN runs :
        LET run == runs[r] IN
        /\ run.pc = "streaming"
        /\ run.round_num = 1
        /\ run.session_id \in DOMAIN active_sessions
        /\ active_sessions[run.session_id].question # run.question
        /\ active_sessions[run.session_id].max_rounds # run.max_rounds
        /\ active_sessions[run.session_id].models # run.models
        /\ Last(run.events).max_rounds = run.max_rounds

=============================================================================
